---- MODULE Spec2Model ----
(***************************************************************************)
(* Model of catalyst.utils.scripts.distributed_cmd_run: the launcher that  *)
(* either runs worker_fn in-process, initialises a distributed context and *)
(* runs worker_fn, or spawns one subprocess per CUDA device, waits for     *)
(* them and kills them in a finally block.                                 *)
(*                                                                         *)
(* One launcher process is modelled step by step (pc), together with the   *)
(* OS processes it spawned, which run and exit on their own.               *)
(***************************************************************************)
EXTENDS Integers, Sequences, FiniteSets

\* ---------------------------------------------------------------- bounds
MaxDevices == 2     \* torch.cuda.device_count() ranges over 0..MaxDevices
MaxWorld   == 2     \* world_size in the environment ranges over 0..MaxWorld
MaxStart   == 1     \* start_rank in the environment ranges over 0..MaxStart
MaxLocal   == 1     \* a set local_rank ranges over 0..MaxLocal
MaxCalls   == 2     \* number of consecutive calls of distributed_cmd_run

\* Python's None (an unset local_rank / rank)
None == -1

VARIABLES
  pc,             \* position of the launcher inside distributed_cmd_run
  calls,          \* number of completed calls
  distributed,    \* the `distributed` argument of the current / last call
  env,            \* os.environ of the launcher at the current / last call
  params,         \* distributed_params resolved by the current / last call
  branch,         \* which of the three branches the call took (0: no call yet)
  device_count,   \* torch.cuda.device_count() of the spawn branch (0 until queried)
  i,              \* loop index of the running for-loop (0-based)
  workers,        \* the local list `workers` of Popen handles
  pending,        \* exception in flight while the finally block runs
  outcome,        \* how the last call ended
  events,         \* calls made by the launcher during the current / last call
  grandchildren,  \* processes spawned by the spawned workers themselves
  taken,          \* the branches taken by the calls so far, in order
  siblingFailure  \* a worker exited non-zero while a sibling was running

vars == <<pc, calls, distributed, env, params, branch, device_count, i,
          workers, pending, outcome, events, grandchildren, taken,
          siblingFailure>>

\* ------------------------------------------------------------ value sets
Ev(op, arg) == [op |-> op, arg |-> arg]
NoErr       == Ev("none", 0)

Envs == [local_rank : {None} \cup (0..MaxLocal),
         rank       : {None},
         world_size : 0..MaxWorld,
         start_rank : 0..MaxStart]

\* ------------------------------------------------- helpers not in scripts.py
\* get_distributed_params(): the parameters derived from the environment
get_distributed_params(e) ==
  [local_rank |-> e.local_rank,
   world_size |-> e.world_size,
   start_rank |-> e.start_rank]

\* get_distributed_env(): the launcher's environment augmented with the
\* worker's local rank, rank and world size
get_distributed_env(local_rank, rank, world_size) ==
  [env EXCEPT !.local_rank = local_rank, !.rank = rank,
              !.world_size = world_size]

\* ------------------------------------------------------ distributed_cmd_run
\* the if / elif / else of the function
BranchAndOr(d, p) ==
  IF (~d) /\ p.world_size <= 1 THEN 1
  ELSE IF p.local_rank # None THEN 2
  ELSE 3

Branch(d, p) ==
  IF (~d) \/ p.world_size <= 1 THEN 1
  ELSE IF p.local_rank # None THEN 2
  ELSE 3

\* torch.cuda.set_device(int(local_rank))
BoundDeviceZero(p) == 0

BoundDevice(p) == p.local_rank

\* range(torch.cuda.device_count())
SpawnRangeInclusive(n) == 0..n

SpawnRange(n) == 0..(n - 1)

\* rank = distributed_params["start_rank"] + local_rank
WorkerRankNoStart(p, local_rank) == local_rank

WorkerRank(p, local_rank) == p.start_rank + local_rank

\* the process created by subprocess.Popen(cmd, env=env)
Process(e) ==
  [env |-> e, status |-> "running", code |-> 0, reaped |-> FALSE,
   kills |-> 0, killedRunning |-> FALSE, branch |-> 0]

SpawnedProcessInheritEnv(local_rank, p) == Process(env)

SpawnedProcess(local_rank, p) ==
  Process(get_distributed_env(local_rank, WorkerRank(p, local_rank),
                              p.world_size))

\* worker.wait() blocks until the process is no longer running
WaitReturnsAtOnce(w) == TRUE

WaitReturns(w) == w.status # "running"

\* end of `for worker in workers: worker.kill()` (k is 0-based)
CleanupDoneSkipLast(k, ws) == k + 1 >= Len(ws)

CleanupDone(k, ws) == k >= Len(ws)

Init ==
  /\ pc = "idle"
  /\ calls = 0
  /\ distributed = FALSE
  /\ env \in Envs
  /\ params = get_distributed_params(env)
  /\ branch = 0
  /\ device_count = 0
  /\ i = 0
  /\ workers = <<>>
  /\ pending = NoErr
  /\ outcome = [kind |-> "none", err |-> NoErr]
  /\ events = <<>>
  /\ grandchildren = 0
  /\ taken = <<>>
  /\ siblingFailure = FALSE

\* entry of distributed_cmd_run(d, worker_fn) in a process whose environment
\* is e
Call(d, e) ==
  /\ pc = "idle"
  /\ calls < MaxCalls
  /\ distributed' = d
  /\ env' = e
  /\ params' = get_distributed_params(e)
  /\ branch' = Branch(d, params')
  /\ pc' = CASE branch' = 1 -> "run"
             [] branch' = 2 -> "set_device"
             [] OTHER       -> "devices"
  /\ device_count' = 0
  /\ i' = 0
  /\ workers' = <<>>
  /\ pending' = NoErr
  /\ outcome' = [kind |-> "none", err |-> NoErr]
  /\ events' = <<>>
  /\ grandchildren' = 0
  /\ taken' = Append(taken, branch')
  /\ siblingFailure' = FALSE
  /\ UNCHANGED calls

SetDevice ==
  /\ pc = "set_device"
  /\ events' = Append(events, Ev("set_device", BoundDevice(params)))
  /\ pc' = "init"
  /\ UNCHANGED <<calls, distributed, env, params, branch, device_count, i,
                 workers, pending, outcome, grandchildren, siblingFailure,
                 taken>>

InitProcessGroup ==
  /\ pc = "init"
  /\ events' = Append(events, Ev("init_process_group", 0))
  /\ pc' = "run"
  /\ UNCHANGED <<calls, distributed, env, params, branch, device_count, i,
                 workers, pending, outcome, grandchildren, siblingFailure,
                 taken>>

\* worker_fn(*args, **kwargs); ok = FALSE: worker_fn raises
RunWorker(ok) ==
  /\ pc = "run"
  /\ events' = Append(events, Ev("worker_fn", 0))
  /\ outcome' = IF ok THEN [kind |-> "returned", err |-> NoErr]
                ELSE [kind |-> "raised", err |-> Ev("worker_fn", 0)]
  /\ pc' = "idle"
  /\ calls' = calls + 1
  /\ UNCHANGED <<distributed, env, params, branch, device_count, i,
                 workers, pending, grandchildren, siblingFailure,
                 taken>>

\* torch.cuda.device_count(), evaluated once when the spawn loop starts
DeviceCount(n) ==
  /\ pc = "devices"
  /\ device_count' = n
  /\ pc' = "spawn"
  /\ UNCHANGED <<calls, distributed, env, params, branch, i, workers,
                 pending, outcome, events, grandchildren, siblingFailure,
                 taken>>

\* one iteration of the spawn loop, Popen succeeds
Spawn ==
  /\ pc = "spawn"
  /\ i \in SpawnRange(device_count)
  /\ workers' = Append(workers, SpawnedProcess(i, params))
  /\ events' = Append(events, Ev("spawn", i))
  /\ i' = i + 1
  /\ UNCHANGED <<pc, calls, distributed, env, params, branch, device_count,
                 pending, outcome, grandchildren, siblingFailure,
                 taken>>

\* one iteration of the spawn loop, Popen raises: control goes to finally
SpawnFail ==
  /\ pc = "spawn"
  /\ i \in SpawnRange(device_count)
  /\ events' = Append(events, Ev("spawn_fail", i))
  /\ pending' = Ev("spawn_fail", i)
  /\ pc' = "kill"
  /\ i' = 0
  /\ UNCHANGED <<calls, distributed, env, params, branch, device_count,
                 workers, outcome, grandchildren, siblingFailure,
                 taken>>

SpawnLoopExit ==
  /\ pc = "spawn"
  /\ i \notin SpawnRange(device_count)
  /\ pc' = "wait"
  /\ i' = 0
  /\ UNCHANGED <<calls, distributed, env, params, branch, device_count,
                 workers, pending, outcome, events, grandchildren,
                 siblingFailure,
                 taken>>

\* worker.wait() returns; the return code is not looked at
WaitThenKill ==
  /\ pc = "wait"
  /\ i < Len(workers)
  /\ WaitReturns(workers[i + 1])
  /\ workers' = [workers EXCEPT ![i + 1] =
                   [@ EXCEPT !.reaped = TRUE, !.kills = @ + 1]]
  /\ events' = events \o <<Ev("wait", i), Ev("kill", i)>>
  /\ i' = i + 1
  /\ UNCHANGED <<pc, calls, distributed, env, params, branch, device_count,
                 pending, outcome, grandchildren, siblingFailure,
                 taken>>

Wait ==
  /\ pc = "wait"
  /\ i < Len(workers)
  /\ WaitReturns(workers[i + 1])
  /\ workers' = [workers EXCEPT ![i + 1].reaped = TRUE]
  /\ events' = Append(events, Ev("wait", i))
  /\ i' = i + 1
  /\ UNCHANGED <<pc, calls, distributed, env, params, branch, device_count,
                 pending, outcome, grandchildren, siblingFailure,
                 taken>>

\* worker.wait() raises (it is interrupted): control goes to finally
WaitRaiseSwallowed ==
  /\ pc = "wait"
  /\ i < Len(workers)
  /\ events' = Append(events, Ev("wait_raise", i))
  /\ i' = i + 1
  /\ UNCHANGED <<pc, calls, distributed, env, params, branch, device_count,
                 workers, pending, outcome, grandchildren, siblingFailure,
                 taken>>

WaitRaise ==
  /\ pc = "wait"
  /\ i < Len(workers)
  /\ events' = Append(events, Ev("wait_raise", i))
  /\ pending' = Ev("wait_raise", i)
  /\ pc' = "kill"
  /\ i' = 0
  /\ UNCHANGED <<calls, distributed, env, params, branch, device_count,
                 workers, outcome, grandchildren, siblingFailure,
                 taken>>

WaitLoopExit ==
  /\ pc = "wait"
  /\ i >= Len(workers)
  /\ pc' = "kill"
  /\ i' = 0
  /\ UNCHANGED <<calls, distributed, env, params, branch, device_count,
                 workers, pending, outcome, events, grandchildren,
                 siblingFailure,
                 taken>>

\* one iteration of the finally loop: worker.kill()
Kill ==
  /\ pc = "kill"
  /\ ~CleanupDone(i, workers)
  /\ LET w == workers[i + 1] IN
       workers' = [workers EXCEPT ![i + 1] =
         [w EXCEPT !.kills = @ + 1,
                   !.killedRunning = @ \/ (w.status = "running"),
                   !.status = IF w.status = "running" THEN "killed" ELSE @]]
  /\ events' = Append(events, Ev("kill", i))
  /\ i' = i + 1
  /\ UNCHANGED <<pc, calls, distributed, env, params, branch, device_count,
                 pending, outcome, grandchildren, siblingFailure,
                 taken>>

\* end of the finally block: return, or re-raise the exception in flight
Return ==
  /\ pc = "kill"
  /\ CleanupDone(i, workers)
  /\ outcome' = IF pending = NoErr THEN [kind |-> "returned", err |-> NoErr]
                ELSE [kind |-> "raised", err |-> pending]
  /\ pc' = "idle"
  /\ calls' = calls + 1
  /\ UNCHANGED <<distributed, env, params, branch, device_count, i,
                 workers, pending, events, grandchildren, siblingFailure,
                 taken>>

\* ------------------------------------------------------ spawned processes
\* a running worker exits by itself with status code
WorkerExit(k, code) ==
  /\ k \in 1..Len(workers)
  /\ workers[k].status = "running"
  /\ siblingFailure' =
       (siblingFailure \/
        (code # 0 /\ \E j \in 1..Len(workers) :
                        j # k /\ workers[j].status = "running"))
  /\ workers' = [workers EXCEPT ![k] =
                   [@ EXCEPT !.status = "exited", !.code = code]]
  /\ UNCHANGED <<pc, calls, distributed, env, params, branch, device_count,
                 i, pending, outcome, events, grandchildren,
                 taken>>

\* a running worker, re-executing the program with the same arguments,
\* reaches distributed_cmd_run and takes one of its branches
WorkerMain(k) ==
  /\ k \in 1..Len(workers)
  /\ workers[k].status = "running"
  /\ workers[k].branch = 0
  /\ LET b == Branch(distributed, get_distributed_params(workers[k].env)) IN
       /\ workers' = [workers EXCEPT ![k].branch = b]
       /\ grandchildren' =
            grandchildren + (IF b = 3 THEN device_count ELSE 0)
  /\ UNCHANGED <<pc, calls, distributed, env, params, branch, device_count,
                 i, pending, outcome, events, siblingFailure,
                 taken>>

Next ==
  \/ \E d \in BOOLEAN, e \in Envs : Call(d, e)
  \/ \E n \in 0..MaxDevices : DeviceCount(n)
  \/ SetDevice
  \/ InitProcessGroup
  \/ \E ok \in BOOLEAN : RunWorker(ok)
  \/ Spawn
  \/ SpawnFail
  \/ SpawnLoopExit
  \/ Wait
  \/ WaitRaise
  \/ WaitLoopExit
  \/ Kill
  \/ Return
  \/ \E k \in 1..MaxDevices + 1, code \in {0, 1} : WorkerExit(k, code)
  \/ \E k \in 1..MaxDevices + 1 : WorkerMain(k)

Spec == Init /\ [][Next]_vars

\* ------------------------------------------------------------ properties
Done          == pc = "idle" /\ outcome.kind # "none"
At(op)        == {j \in 1..Len(events) : events[j].op = op}
Failures      == At("spawn_fail") \cup At("wait_raise")
KillSeq(n)    == [k \in 1..n |-> Ev("kill", k - 1)]
SpawnSeq(n)   == [k \in 1..n |-> Ev("spawn", k - 1)]

\* C1: in the spawn branch, on every exit path (normal return, a wait that
\* raises, a spawn that fails part-way) every worker that was spawned has
\* been sent a kill, and none is still running, when the launcher returns
\* or raises.
C1_KillOnEveryExit ==
  (branch = 3 /\ Done) =>
    /\ Len(workers) = Cardinality(At("spawn"))
    /\ \A k \in 1..Len(workers) :
         /\ workers[k].kills >= 1
         /\ workers[k].status # "running"
         /\ Ev("kill", k - 1) \in {events[j] : j \in 1..Len(events)}

C1_Witness ==
  /\ branch = 3 /\ Done
  /\ outcome.kind = "raised"
  /\ Len(workers) = 2
  /\ workers[2].killedRunning

\* C2: in the spawn branch, if a worker exits with a non-zero status while a
\* sibling is still running, the launcher ends by raising an error to its
\* caller.
C2_SiblingFailureRaises ==
  (branch = 3 /\ Done /\ siblingFailure) => outcome.kind = "raised"

\* C3: in the spawn branch the k-th spawned process gets local_rank = k,
\* rank = start_rank + k and the resolved world_size; the spawns are exactly
\* those of 0 .. N-1 in order once the spawn loop has ended without failure,
\* and the local ranks are pairwise distinct and cover 0 .. N-1.
C3_SpawnEnvs ==
  branch = 3 =>
    /\ \A k \in 1..Len(workers) :
         /\ workers[k].env.local_rank = k - 1
         /\ workers[k].env.rank = params.start_rank + (k - 1)
         /\ workers[k].env.world_size = params.world_size
    /\ Len(workers) <= device_count
    /\ (At("spawn_fail") = {} /\ pc \notin {"devices", "spawn"}) =>
         /\ Len(workers) = device_count
         /\ SubSeq(events, 1, device_count) = SpawnSeq(device_count)
         /\ Cardinality(At("spawn")) = device_count
         /\ {workers[k].env.local_rank : k \in 1..Len(workers)}
              = 0..(device_count - 1)

C3_Witness ==
  /\ branch = 3 /\ pc = "wait"
  /\ device_count = 2
  /\ params.start_rank = 1
  /\ workers[2].env.rank = 2

\* C4: in the spawn branch, when no spawn and no wait raises, every wait
\* comes after all N spawns, and when the launcher returns every one of the
\* N workers has exited by itself and been waited for, so every kill of the
\* cleanup went to a worker that had already exited.
C4_WaitsThenHarmlessKills ==
  (branch = 3 /\ Failures = {}) =>
    /\ At("wait") # {} => Len(workers) = device_count
    /\ \A w \in At("wait"), s \in At("spawn") : s < w
    /\ \A k \in At("kill") : At("wait") = {w \in 1..Len(events) :
                                 device_count < w /\ w <= 2 * device_count}
    /\ Done =>
         /\ outcome.kind = "returned"
         /\ Len(workers) = device_count
         /\ \A k \in 1..Len(workers) :
              /\ workers[k].status = "exited"
              /\ workers[k].reaped
              /\ workers[k].kills = 1
              /\ ~workers[k].killedRunning

C4_Witness ==
  /\ branch = 3 /\ Done /\ Failures = {}
  /\ device_count = 2
  /\ \A k \in 1..2 : workers[k].kills = 1 /\ workers[k].status = "exited"

\* C5: a call with distributed false, or with a resolved world_size <= 1,
\* whatever calls came before it, takes the in-process branch: it invokes
\* worker_fn once and does nothing else (no spawn, no device binding, no
\* init), with the parameters resolved from the environment of that call.
C5_InProcess ==
  (branch # 0 /\ (~distributed \/ get_distributed_params(env).world_size <= 1))
    =>
    /\ branch = 1
    /\ params = get_distributed_params(env)
    /\ pc \in {"run", "idle"}
    /\ workers = <<>> /\ grandchildren = 0
    /\ events = IF pc = "idle" THEN <<Ev("worker_fn", 0)>> ELSE <<>>

C5_Witness ==
  /\ Done /\ calls = 2
  /\ taken = <<3, 1>>
  /\ ~distributed /\ params.world_size = 2
  /\ events = <<Ev("worker_fn", 0)>>

\* C6: a call with distributed true, world_size > 1 and a local rank set
\* binds the device numbered by the local rank, then initialises the process
\* group, then invokes worker_fn, each once and in that order, and spawns
\* nothing.
C6_BindInitRun ==
  (branch # 0 /\ distributed /\ params.world_size > 1
              /\ params.local_rank # None) =>
    LET full == <<Ev("set_device", params.local_rank),
                  Ev("init_process_group", 0), Ev("worker_fn", 0)>> IN
    /\ branch = 2
    /\ workers = <<>> /\ grandchildren = 0
    /\ pc \in {"set_device", "init", "run", "idle"}
    /\ pc = "set_device" => events = <<>>
    /\ pc = "init" => events = SubSeq(full, 1, 1)
    /\ pc = "run" => events = SubSeq(full, 1, 2)
    /\ pc = "idle" => events = full

C6_Witness ==
  /\ Done /\ branch = 2
  /\ params.local_rank = 1
  /\ Len(events) = 3 /\ events[1] = Ev("set_device", 1)

\* C7: in the spawn branch with device_count = 0 nothing is spawned, waited
\* for or killed, the launcher is never blocked, and it returns without
\* raising.
C7_NoDevices ==
  (branch = 3 /\ pc # "devices" /\ device_count = 0) =>
    /\ workers = <<>> /\ events = <<>> /\ pending = NoErr
    /\ pc = "spawn" => ENABLED SpawnLoopExit
    /\ pc = "wait" => ENABLED WaitLoopExit
    /\ pc = "kill" => ENABLED Return
    /\ pc = "idle" => outcome.kind = "returned"

C7_Witness ==
  /\ branch = 3 /\ device_count = 0 /\ Done
  /\ outcome.kind = "returned"

\* C8: in the spawn branch, after a spawn or a wait has raised, the launcher
\* makes no further spawn or wait (only kills follow), the kills go to every
\* worker spawned so far, one each and in order, and the failure that then
\* reaches the caller is that same failure.
C8_FailurePropagates ==
  branch = 3 =>
    \A f \in Failures :
      /\ pc \in {"kill", "idle"}
      /\ pending = events[f]
      /\ \A j \in (f + 1)..Len(events) : events[j].op = "kill"
      /\ Len(workers) = Cardinality({s \in At("spawn") : s < f})
      /\ Len(events) - f <= Len(workers)
      /\ SubSeq(events, f + 1, Len(events)) = KillSeq(Len(events) - f)
      /\ pc = "idle" =>
           /\ outcome = [kind |-> "raised", err |-> events[f]]
           /\ SubSeq(events, f + 1, Len(events)) = KillSeq(Len(workers))
           /\ \A k \in 1..Len(workers) : workers[k].kills = 1

C8_Witness ==
  /\ branch = 3 /\ Done
  /\ outcome = [kind |-> "raised", err |-> Ev("spawn_fail", 1)]
  /\ Len(workers) = 1 /\ workers[1].killedRunning
  /\ events = <<Ev("spawn", 0), Ev("spawn_fail", 1), Ev("kill", 0)>>

\* C9: every process spawned by the spawn branch resolves, from the
\* environment it was given, a set local rank and a world_size > 1, and so
\* takes the second branch; none spawns processes of its own, and the
\* processes created by one launch are those of the spawn loop, device_count
\* of them when no spawn fails.
C9_NoRecursiveSpawn ==
  branch = 3 =>
    /\ grandchildren = 0
    /\ \A k \in 1..Len(workers) :
         /\ get_distributed_params(workers[k].env).local_rank # None
         /\ get_distributed_params(workers[k].env).world_size > 1
         /\ workers[k].branch \in {0, 2}
    /\ Len(workers) + grandchildren <= device_count
    /\ (At("spawn_fail") = {} /\ pc \notin {"devices", "spawn"}) =>
         Len(workers) + grandchildren = device_count

C9_Witness ==
  /\ branch = 3 /\ pc = "wait" /\ device_count = 2
  /\ \A k \in 1..2 : workers[k].branch = 2

\* C10 as stated: every kill is issued only after the wait step has ended,
\* because every worker's wait returned or because a wait raised.
C10_KillOnlyAfterWaitStep ==
  branch = 3 =>
    \A j \in At("kill") :
      \/ \E f \in At("wait_raise") : f < j
      \/ /\ Len(workers) = device_count
         /\ \A k \in 1..Len(workers) :
              \E w \in At("wait") : w < j /\ events[w].arg = k - 1

\* C10 amended: no kill is issued while the spawn loop or the wait loop is
\* running; every kill comes after the try block has ended, because every
\* worker's wait returned, because a wait raised, or because a spawn failed.
C10_KillOnlyAfterTryBlock ==
  branch = 3 =>
    /\ pc \in {"devices", "spawn", "wait"} => At("kill") = {}
    /\ \A j \in At("kill") :
         \/ \E f \in Failures : f < j
         \/ /\ Len(workers) = device_count
            /\ \A k \in 1..Len(workers) :
                 \E w \in At("wait") : w < j /\ events[w].arg = k - 1

C10_Witness ==
  /\ branch = 3 /\ pc = "kill"
  /\ At("spawn_fail") # {} /\ At("wait") = {}
  /\ At("kill") # {}

====
